---------------------------- MODULE Spec2Model ----------------------------
(***************************************************************************)
(* A model of react-masonry-component:                                     *)
(*   - lib/ResponsiveMasonry.tsx: getColumnsCount and the ResponsiveMasonry *)
(*     function component (column-count state, window resize listener);    *)
(*   - lib/index.tsx: MasonryComponent (the adapter between React's child  *)
(*     list and the masonry-layout engine), its child-list diff, its       *)
(*     debounced imagesloaded observation and its unmount.                 *)
(*                                                                         *)
(* Specifications:                                                         *)
(*   SpecResponsive  the ResponsiveMasonry component in a window           *)
(*   Spec            MasonryComponent over a mutable DOM (diff, update)    *)
(*   SpecLife        MasonryComponent with changing props, image-load      *)
(*                   notifications and the debounce timer                  *)
(*   SpecEvents      MasonryComponent with changing callback props         *)
(***************************************************************************)
EXTENDS Integers, Sequences, FiniteSets, TLC

VARIABLES
    \* ---- environment ----
    isBrowser,                \* typeof window !== 'undefined'
    \* ---- ResponsiveMasonry ----
    rmPhase,                  \* "new" | "rendered" | "mounted" | "unmounted"
    columnsCountBreakPoints,  \* the breakpoint table prop (key -> columns)
    childIsFunction,          \* typeof children === 'function'
    innerWidth,               \* window.innerWidth
    resizeQueued,             \* a resize event is dispatched but not yet delivered
    columnsCount,             \* the useState value
    handleResize,             \* the memoized callback: [id, breakPoints]
    resizeListeners,          \* the component's listeners registered on window
    callbackGen,              \* how many callbacks useCallback has created
    dataColumnsCount,         \* the data-columns-count attribute last rendered
    childArg,                 \* what the function child was last called with (0: never)
    rLast,                    \* the most recent ResponsiveMasonry step
    didRender,                \* that step rendered the component
    \* ---- the DOM under the MasonryComponent container ----
    containerChildren,        \* the container's child elements, in document order
    elsewhere,                \* elements whose parent is another node
    matching,                 \* elements the item selector matches
    \* ---- MasonryComponent ----
    mPhase,                   \* "constructed" | "mounted" | "unmounted"
    hasContainer,             \* masonryContainerRef.current is an element
    props,                    \* this.props
    masonry,                  \* this.masonry is an engine instance (FALSE: null)
    engine,                   \* the engine: [constructed, destroyed, handlers]
    latestKnownDomChildren,   \* this.latestKnownDomChildren
    erd,                      \* this.erd is a detector (FALSE: null)
    erdListeners,             \* listeners the detector holds per element
    imagesLoadedCancelRef,    \* the observation this.imagesLoadedCancelRef cancels (0: undefined)
    observations,             \* image-load observations still subscribed or with a timer
    obsCount,                 \* observations started so far
    \* ---- what the most recent step did ----
    calls,                    \* the engine, detector, timer and callback calls it made, in order
    diff,                     \* the DiffResult it computed (NoDiff: none)
    \* ---- history ----
    announced                 \* [kept, nodes]: where a specification keeps this history,
                              \* the elements an update pass handed to appended() or
                              \* prepended() that have been children of the container
                              \* ever since

rvars == <<rmPhase, columnsCountBreakPoints, childIsFunction, innerWidth,
           resizeQueued, columnsCount, handleResize, resizeListeners,
           callbackGen, dataColumnsCount, childArg, rLast, didRender>>
domvars == <<containerChildren, elsewhere, matching>>
mvars == <<mPhase, hasContainer, props, masonry, engine, latestKnownDomChildren,
           erd, erdListeners, imagesLoadedCancelRef, observations, obsCount,
           calls, diff, announced>>
vars == <<isBrowser, rvars, domvars, mvars>>

(***************************************************************************)
(* Bounds                                                                  *)
(***************************************************************************)
\* viewport widths and breakpoint keys range over 0..MaxWidth
MaxWidth == 2
\* column counts range over 1..MaxColumns
MaxColumns == 2
\* re-renders of ResponsiveMasonry that receive a new table object
MaxRerenders == 1

Widths == 0..MaxWidth
Columns == 1..MaxColumns
\* a breakpoint table: non-negative integer keys mapped to positive counts
Tables == UNION {[K -> Columns] : K \in SUBSET Widths}

(***************************************************************************)
(* Helpers                                                                 *)
(***************************************************************************)
SetMin(S) == CHOOSE x \in S : \A y \in S : x <= y
SetMax(S) == CHOOSE x \in S : \A y \in S : y <= x

RECURSIVE SortAscending(_)
\* Object.keys(breakPoints).map(Number).sort((a, b) => a - b)
SortAscending(S) ==
    IF S = {} THEN <<>>
    ELSE LET m == SetMin(S) IN <<m>> \o SortAscending(S \ {m})

Range(s) == {s[i] : i \in DOMAIN s}

(***************************************************************************)
(* lib/ResponsiveMasonry.tsx                                               *)
(***************************************************************************)
RECURSIVE ScanBreakPoints(_, _, _, _, _)
\* the for..of loop of getColumnsCount from position i with the running value
ScanBreakPoints(arr, i, width, breakPoints, columns) ==
    IF i > Len(arr) THEN columns
    ELSE IF arr[i] <= width
         THEN ScanBreakPoints(arr, i + 1, width, breakPoints, breakPoints[arr[i]])
         ELSE columns   \* break

\* faulty variant: a key selects its value only for widths above it
getColumnsCountStrict(width, breakPoints) ==
    ScanBreakPoints(SortAscending(DOMAIN breakPoints), 1, width - 1, breakPoints, 1)

\* faulty variant: only a key equal to the width selects its value
getColumnsCountExactKey(width, breakPoints) ==
    IF width \in DOMAIN breakPoints THEN breakPoints[width] ELSE 1

\* faulty variant: the running value starts at 0 instead of 1
getColumnsCountNoDefault(width, breakPoints) ==
    ScanBreakPoints(SortAscending(DOMAIN breakPoints), 1, width, breakPoints, 0)

\* getColumnsCount(width, breakPoints)
getColumnsCount(width, breakPoints) ==
    ScanBreakPoints(SortAscending(DOMAIN breakPoints), 1, width, breakPoints, 1)

\* faulty variant: without a window the value of the largest key is taken
InitialColumnsCountLargestKey(breakPoints) ==
    IF ~isBrowser
    THEN IF DOMAIN breakPoints # {}
         THEN breakPoints[SetMax(DOMAIN breakPoints)]
         ELSE 1
    ELSE getColumnsCount(innerWidth, breakPoints)

\* the useState initializer
InitialColumnsCount(breakPoints) ==
    IF ~isBrowser
    THEN IF DOMAIN breakPoints # {}
         THEN SetMax({breakPoints[k] : k \in DOMAIN breakPoints})
         ELSE 1
    ELSE getColumnsCount(innerWidth, breakPoints)

\* the value the state holds after handleResize's setColumnsCount updater
HandleResizeResult(handler, prev) ==
    IF ~isBrowser THEN prev
    ELSE LET newColumnsCount == getColumnsCount(innerWidth, handler.breakPoints)
         IN IF prev # newColumnsCount THEN newColumnsCount ELSE prev

RECURSIVE RunListeners(_, _)
\* the window delivers one resize event to every registered listener
RunListeners(ls, prev) ==
    IF ls = {} THEN prev
    ELSE LET h == CHOOSE x \in ls : \A y \in ls : x.id <= y.id
         IN RunListeners(ls \ {h}, HandleResizeResult(h, prev))

\* faulty variant: the effect's cleanup leaves the previous listener registered
EffectCleanupLeaky(ls, handler) == ls

\* the effect's cleanup: window.removeEventListener('resize', handleResize)
EffectCleanup(ls, handler) == ls \ {handler}

\* faulty variant: the effect registers the listener without setting the initial value
EffectSetInitialSkipped(handler, prev) == prev

\* the effect's "Set initial value": handleResize()
EffectSetInitial(handler, prev) == HandleResizeResult(handler, prev)

\* faulty variant: every call of the state setter re-renders
StateUpdateAlwaysRenders(prev, next) == TRUE

\* setColumnsCount's updater returns prev for an equal count (lines 113-116), and
\* React does not re-render for an identical state
StateUpdateRenders(prev, next) == prev # next

\* the render output for a column-count state
Rendered(cols, fn) ==
    /\ dataColumnsCount' = cols
    /\ childArg' = IF fn THEN cols ELSE childArg

RInit ==
    /\ isBrowser \in BOOLEAN
    /\ rmPhase = "new"
    /\ columnsCountBreakPoints \in Tables
    /\ childIsFunction \in BOOLEAN
    /\ innerWidth \in Widths
    /\ resizeQueued = FALSE
    /\ columnsCount = 0
    /\ handleResize = [id |-> 0, breakPoints |-> columnsCountBreakPoints]
    /\ resizeListeners = {}
    /\ callbackGen = 0
    /\ dataColumnsCount = 0
    /\ childArg = 0
    /\ rLast = "none"
    /\ didRender = FALSE

\* the first render: useState's initializer, useCallback, the returned element
RRender ==
    /\ rLast' = "render"
    /\ didRender' = TRUE
    /\ rmPhase = "new"
    /\ rmPhase' = "rendered"
    /\ columnsCount' = InitialColumnsCount(columnsCountBreakPoints)
    /\ Rendered(columnsCount', childIsFunction)
    /\ UNCHANGED <<domvars, mvars>>
    /\ UNCHANGED <<isBrowser, columnsCountBreakPoints, childIsFunction, innerWidth,
                   resizeQueued, handleResize, resizeListeners, callbackGen>>

\* the mount effect (never run by a server render): set the initial value, add
\* the listener; a changed state re-renders with the same callback
RMountEffect ==
    /\ rLast' = "effect"
    /\ rmPhase = "rendered"
    /\ isBrowser
    /\ rmPhase' = "mounted"
    /\ columnsCount' = EffectSetInitial(handleResize, columnsCount)
    /\ resizeListeners' = resizeListeners \cup {handleResize}
    /\ didRender' = StateUpdateRenders(columnsCount, columnsCount')
    /\ Rendered(columnsCount', childIsFunction)
    /\ UNCHANGED <<domvars, mvars>>
    /\ UNCHANGED <<isBrowser, columnsCountBreakPoints, childIsFunction, innerWidth,
                   resizeQueued, handleResize, callbackGen>>

\* the window changes width and dispatches a resize event
RWindowResize(w) ==
    /\ rLast' = "resize"
    /\ didRender' = FALSE
    /\ isBrowser
    /\ w # innerWidth
    /\ innerWidth' = w
    /\ resizeQueued' = TRUE
    /\ UNCHANGED <<domvars, mvars>>
    /\ UNCHANGED <<isBrowser, rmPhase, columnsCountBreakPoints, childIsFunction,
                   columnsCount, handleResize, resizeListeners, callbackGen,
                   dataColumnsCount, childArg>>

\* the resize event is delivered to the registered listeners
RDeliverResize ==
    /\ rLast' = "deliver"
    /\ resizeQueued
    /\ resizeQueued' = FALSE
    /\ columnsCount' = RunListeners(resizeListeners, columnsCount)
    /\ didRender' = StateUpdateRenders(columnsCount, columnsCount')
    /\ IF StateUpdateRenders(columnsCount, columnsCount')
       THEN Rendered(columnsCount', childIsFunction)
       ELSE UNCHANGED <<dataColumnsCount, childArg>>
    /\ UNCHANGED <<domvars, mvars>>
    /\ UNCHANGED <<isBrowser, rmPhase, columnsCountBreakPoints, childIsFunction,
                   innerWidth, handleResize, resizeListeners, callbackGen>>

\* a re-render with a new table object that sets key k to v (v = 0: without k):
\* useCallback makes a new handleResize, so the effect is cleaned up and re-run
RRerenderNewTable(k, v, fn) ==
    /\ rLast' = "rerender"
    /\ didRender' = TRUE
    /\ rmPhase = "mounted"
    /\ callbackGen < MaxRerenders
    /\ LET T == columnsCountBreakPoints
           K == IF v = 0 THEN DOMAIN T \ {k} ELSE DOMAIN T \cup {k}
           newT == [x \in K |-> IF x = k THEN v ELSE T[x]]
           newHandler == [id |-> callbackGen + 1, breakPoints |-> newT]
       IN /\ columnsCountBreakPoints' = newT
          /\ handleResize' = newHandler
          /\ callbackGen' = callbackGen + 1
          /\ resizeListeners' = EffectCleanup(resizeListeners, handleResize) \cup {newHandler}
          /\ columnsCount' = EffectSetInitial(newHandler, columnsCount)
    /\ childIsFunction' = fn
    /\ Rendered(columnsCount', fn)
    /\ UNCHANGED <<domvars, mvars>>
    /\ UNCHANGED <<isBrowser, rmPhase, innerWidth, resizeQueued>>

\* a re-render with the same table object: the callback and the effect are kept
RRerenderSameTable(fn) ==
    /\ rLast' = "rerender"
    /\ didRender' = TRUE
    /\ rmPhase = "mounted"
    /\ childIsFunction' = fn
    /\ Rendered(columnsCount, fn)
    /\ UNCHANGED <<domvars, mvars>>
    /\ UNCHANGED <<isBrowser, rmPhase, columnsCountBreakPoints, innerWidth,
                   resizeQueued, columnsCount, handleResize, resizeListeners,
                   callbackGen>>

\* unmount: the effect's cleanup
RUnmount ==
    /\ rLast' = "unmount"
    /\ didRender' = FALSE
    /\ rmPhase = "mounted"
    /\ rmPhase' = "unmounted"
    /\ resizeListeners' = EffectCleanup(resizeListeners, handleResize)
    /\ UNCHANGED <<domvars, mvars>>
    /\ UNCHANGED <<isBrowser, columnsCountBreakPoints, childIsFunction, innerWidth,
                   resizeQueued, columnsCount, handleResize, callbackGen,
                   dataColumnsCount, childArg>>

(***************************************************************************)
(* lib/index.tsx: MasonryComponent                                         *)
(***************************************************************************)
\* DOM elements that can occur under the container
MaxNodes == 3
\* identities of the callback functions passed as props (0: none supplied)
NumCallbacks == 2
\* image-load observations one component starts
MaxObservations == 2
\* listeners the resize detector holds for one element
MaxListeners == 2
\* the debounce wait passed by imagesLoaded
DebounceWait == 100
\* clock ticks per debounce wait
TicksPerWait == 2

Nodes == 1..MaxNodes
Callbacks == 0..NumCallbacks
TimeStep == DebounceWait \div TicksPerWait

\* Array.prototype.indexOf: the 0-based index of the first occurrence, or -1
IndexOf(s, x) ==
    IF \E i \in DOMAIN s : s[i] = x
    THEN SetMin({i \in DOMAIN s : s[i] = x}) - 1
    ELSE -1

RemoveAt(s, i) == SubSeq(s, 1, i - 1) \o SubSeq(s, i + 1, Len(s))
InsertAt(s, i, x) == SubSeq(s, 1, i - 1) \o <<x>> \o SubSeq(s, i, Len(s))
Without(s, x) == SelectSeq(s, LAMBDA y : y # x)

\* sequences of distinct elements of S
RECURSIVE Arrangements(_)
Arrangements(S) ==
    {<<>>} \cup UNION {{<<x>> \o t : t \in Arrangements(S \ {x})} : x \in S}

\* element.parentNode is not null
HasParent(el) == el \in Range(containerChildren) \/ el \in elsewhere

\* node.querySelectorAll(itemSelector) or node.children, as an array, with
\* this.props = p
getCurrentDomChildren(p) ==
    IF ~hasContainer THEN <<>>
    ELSE IF p.itemSelector
         THEN SelectSeq(containerChildren, LAMBDA el : el \in matching)
         ELSE containerChildren

RECURSIVE PrependedFilter(_, _, _, _)
\* the filter over newDomChildren from position i with the running beginningIndex
PrependedFilter(newDomChildren, currentDomChildren, i, beginningIndex) ==
    IF i > Len(newDomChildren) THEN <<>>
    ELSE LET newChild == newDomChildren[i]
             prepend == beginningIndex = IndexOf(currentDomChildren, newChild)
         IN IF prepend
            THEN <<newChild>> \o PrependedFilter(newDomChildren, currentDomChildren,
                                                  i + 1, beginningIndex + 1)
            ELSE PrependedFilter(newDomChildren, currentDomChildren, i + 1, beginningIndex)

\* Array.prototype.filter: the elements of s at the positions in keep, in order
FilterAt(s, keep) ==
    LET F[i \in 0..Len(s)] ==
            IF i = 0 THEN <<>>
            ELSE IF i \in keep THEN Append(F[i - 1], s[i]) ELSE F[i - 1]
    IN F[Len(s)]

NoDiff == [old |-> <<>>, new |-> <<>>, removed |-> <<>>, appended |-> <<>>,
           prepended |-> <<>>, moved |-> <<>>, forceItemReload |-> FALSE,
           known |-> <<>>, ran |-> FALSE]

\* faulty variant: the known children are taken whether attached or not
KnownChildrenUnfiltered(known) == known

\* line 229: the known children whose parentNode is not null
KnownChildrenStillAttached(known) == SelectSeq(known, HasParent)

\* faulty variant: a known child that lost its parent does not force a reload
ForceItemReloadNever(known) == FALSE

\* line 243: not all known children are still attached
ForceItemReload(known) == Len(KnownChildrenStillAttached(known)) # Len(known)

\* faulty variant: the removed list is always empty
RemovedAlwaysEmpty(known, currentDomChildren) == <<>>

\* line 253: attached known children that the current list does not hold
Removed(known, currentDomChildren) ==
    SelectSeq(KnownChildrenStillAttached(known),
              LAMBDA c : IndexOf(currentDomChildren, c) = -1)

\* line 261: current children unknown from previous renders
NewDomChildren(known, currentDomChildren) ==
    SelectSeq(currentDomChildren,
              LAMBDA c : IndexOf(KnownChildrenStillAttached(known), c) = -1)

\* faulty variant: nothing counts as prepended while no known child is attached
PrependedNeedsKnown(known, currentDomChildren) ==
    IF Len(KnownChildrenStillAttached(known)) = 0 THEN <<>>
    ELSE PrependedFilter(NewDomChildren(known, currentDomChildren),
                         currentDomChildren, 1, 0)

\* faulty variant: every new child counts as prepended
PrependedEveryNew(known, currentDomChildren) ==
    NewDomChildren(known, currentDomChildren)

\* faulty variant: only a new child at index 0 counts as prepended
PrependedAtMostOne(known, currentDomChildren) ==
    IF /\ Len(currentDomChildren) > 0
       /\ IndexOf(NewDomChildren(known, currentDomChildren), currentDomChildren[1]) # -1
    THEN <<currentDomChildren[1]>>
    ELSE <<>>

\* line 268: everything added to the beginning of the list
Prepended(known, currentDomChildren) ==
    PrependedFilter(NewDomChildren(known, currentDomChildren), currentDomChildren, 1, 0)

\* faulty variant: every new child counts as appended
AppendedEveryNew(known, currentDomChildren) ==
    NewDomChildren(known, currentDomChildren)

\* line 280: every other new child
Appended(known, currentDomChildren) ==
    SelectSeq(NewDomChildren(known, currentDomChildren),
              LAMBDA el : IndexOf(Prepended(known, currentDomChildren), el) = -1)

\* faulty variant: a known child counts as moved only when its order among the known
\* children changed
MovedRelative(known, currentDomChildren) ==
    IF Len(Removed(known, currentDomChildren)) = 0
    THEN LET old == KnownChildrenStillAttached(known)
             kept == SelectSeq(currentDomChildren, LAMBDA c : c \in Range(old))
         IN FilterAt(old, {i \in DOMAIN old : i - 1 # IndexOf(kept, old[i])})
    ELSE <<>>

\* faulty variant: the known index is counted from 1, the current index from 0
MovedOffByOne(known, currentDomChildren) ==
    IF Len(Removed(known, currentDomChildren)) = 0
    THEN LET old == KnownChildrenStillAttached(known)
         IN FilterAt(old, {i \in DOMAIN old : i # IndexOf(currentDomChildren, old[i])})
    ELSE <<>>

\* faulty variant: moved is computed whether or not something was removed
MovedDespiteRemoved(known, currentDomChildren) ==
    LET old == KnownChildrenStillAttached(known)
    IN FilterAt(old, {i \in DOMAIN old : i - 1 # IndexOf(currentDomChildren, old[i])})

\* faulty variant: every attached known child that is still listed counts as moved
MovedEveryKept(known, currentDomChildren) ==
    IF Len(Removed(known, currentDomChildren)) = 0
    THEN KnownChildrenStillAttached(known)
    ELSE <<>>

\* line 285: attached known children whose index in the current list differs
Moved(known, currentDomChildren) ==
    IF Len(Removed(known, currentDomChildren)) = 0
    THEN LET old == KnownChildrenStillAttached(known)
         IN FilterAt(old, {i \in DOMAIN old : i - 1 # IndexOf(currentDomChildren, old[i])})
    ELSE <<>>

\* faulty variant: the attached known children are retained instead
RetainedKnownStillAttached(d) == d.old

\* line 302: this.latestKnownDomChildren after the diff
RetainedKnown(d) == d.new

\* diffDomChildren's result for this.latestKnownDomChildren = known and
\* getCurrentDomChildren() = currentDomChildren (componentDidUpdate stores the
\* latter as the new latestKnownDomChildren); known and ran record the input
\* and that the diff was computed
diffDomChildren(known, currentDomChildren) ==
    [old |-> KnownChildrenStillAttached(known),
     new |-> currentDomChildren,
     removed |-> Removed(known, currentDomChildren),
     appended |-> Appended(known, currentDomChildren),
     prepended |-> Prepended(known, currentDomChildren),
     moved |-> Moved(known, currentDomChildren),
     forceItemReload |-> ForceItemReload(known),
     known |-> known, ran |-> TRUE]

Call(op, arg) == [op |-> op, arg |-> arg]

\* this.erd.listenTo(el, ...) for every element of s, when this.erd is set
ListenToAll(listeners, s, haveErd) ==
    IF haveErd
    THEN [n \in Nodes |-> listeners[n] + Cardinality({i \in DOMAIN s : s[i] = n})]
    ELSE listeners

\* faulty variant: the insertions are applied before the removal
EngineCallsInsertFirst(d) ==
    (IF Len(d.appended) > 0 THEN <<Call("appended", d.appended)>> ELSE <<>>)
    \o (IF Len(d.prepended) > 0 THEN <<Call("prepended", d.prepended)>> ELSE <<>>)
    \o (IF Len(d.removed) > 0 THEN <<Call("remove", d.removed)>> ELSE <<>>)
    \o (IF \/ d.forceItemReload \/ Len(d.moved) > 0 \/ Len(d.removed) > 0
           \/ (Len(d.appended) > 0 /\ Len(d.prepended) = 0)
        THEN <<Call("reloadItems", <<>>)>> ELSE <<>>)
    \o <<Call("layout", <<>>)>>

\* faulty variant: layout is called only after a reload of the items
EngineCallsLayoutOnReload(d) ==
    LET reloadItems ==
            \/ d.forceItemReload \/ Len(d.moved) > 0
            \/ Len(d.removed) > 0
            \/ (Len(d.appended) > 0 /\ Len(d.prepended) = 0)
    IN (IF Len(d.removed) > 0 THEN <<Call("remove", d.removed)>> ELSE <<>>)
       \o (IF Len(d.appended) > 0 THEN <<Call("appended", d.appended)>> ELSE <<>>)
       \o (IF Len(d.prepended) > 0 THEN <<Call("prepended", d.prepended)>> ELSE <<>>)
       \o (IF reloadItems THEN <<Call("reloadItems", <<>>), Call("layout", <<>>)>>
           ELSE <<>>)

\* faulty variant: appended children alone do not reload the items
EngineCallsNoReloadOnAppend(d) ==
    LET reloadItems ==
            \/ d.forceItemReload \/ Len(d.moved) > 0
            \/ Len(d.removed) > 0
    IN (IF Len(d.removed) > 0 THEN <<Call("remove", d.removed)>> ELSE <<>>)
       \o (IF Len(d.appended) > 0 THEN <<Call("appended", d.appended)>> ELSE <<>>)
       \o (IF Len(d.prepended) > 0 THEN <<Call("prepended", d.prepended)>> ELSE <<>>)
       \o (IF reloadItems THEN <<Call("reloadItems", <<>>)>> ELSE <<>>)
       \o <<Call("layout", <<>>)>>

\* faulty variant: any new child reloads the items
EngineCallsReloadOnInsert(d) ==
    LET reloadItems ==
            \/ d.forceItemReload \/ Len(d.moved) > 0
            \/ Len(d.removed) > 0
            \/ Len(d.appended) > 0 \/ Len(d.prepended) > 0
    IN (IF Len(d.removed) > 0 THEN <<Call("remove", d.removed)>> ELSE <<>>)
       \o (IF Len(d.appended) > 0 THEN <<Call("appended", d.appended)>> ELSE <<>>)
       \o (IF Len(d.prepended) > 0 THEN <<Call("prepended", d.prepended)>> ELSE <<>>)
       \o (IF reloadItems THEN <<Call("reloadItems", <<>>)>> ELSE <<>>)
       \o <<Call("layout", <<>>)>>

\* the engine calls performLayout makes for a diff, in program order
EngineCalls(d) ==
    LET reloadItems ==
            \/ d.forceItemReload \/ Len(d.moved) > 0     \* line 319
            \/ Len(d.removed) > 0                         \* line 327
            \/ (Len(d.appended) > 0 /\ Len(d.prepended) = 0)   \* line 334
    IN (IF Len(d.removed) > 0 THEN <<Call("remove", d.removed)>> ELSE <<>>)
       \o (IF Len(d.appended) > 0 THEN <<Call("appended", d.appended)>> ELSE <<>>)
       \o (IF Len(d.prepended) > 0 THEN <<Call("prepended", d.prepended)>> ELSE <<>>)
       \o (IF reloadItems THEN <<Call("reloadItems", <<>>)>> ELSE <<>>)
       \o <<Call("layout", <<>>)>>

\* the resize listeners after performLayout applied a diff with this.props = p
ErdAfterLayout(d, p) ==
    LET afterRemove ==
            IF Len(d.removed) > 0 /\ p.enableResizableChildren /\ erd
            THEN [n \in Nodes |-> IF n \in Range(d.removed) THEN 0 ELSE erdListeners[n]]
            ELSE erdListeners
    IN IF p.enableResizableChildren
       THEN ListenToAll(ListenToAll(afterRemove, d.appended, erd), d.prepended, erd)
       ELSE afterRemove

(***************************************************************************)
(* debounce and the imagesloaded observation                               *)
(*                                                                         *)
(* An observation is one imagesLoaded() call's detector and debounced       *)
(* handler: id, the event subscribed to, whether the handler is still      *)
(* subscribed, the handler's pending timeouts (milliseconds left, oldest   *)
(* first), timeoutId (the position of the timeout the closure remembers,   *)
(* 0: null), and a record of the current burst of notifications: quiet     *)
(* (ms since the last one, -1: none yet), notifs (how many), and how often  *)
(* the debounced function ran, called onImagesLoaded and called layout     *)
(* since the burst began.                                                  *)
(***************************************************************************)
\* notifications counted in one burst
MaxBurst == 3

NewObservation(id, event) ==
    [id |-> id, event |-> event, subscribed |-> TRUE, timers |-> <<>>,
     timeoutId |-> 0, quiet |-> -1, notifs |-> 0,
     funcRuns |-> 0, cbRuns |-> 0, layoutRuns |-> 0]

\* faulty variant: the pending timeout is not cleared when the handler is called again
DebouncedKeepsTimeout(o) ==
    LET ts == Append(o.timers, DebounceWait)
    IN [o EXCEPT !.timers = ts, !.timeoutId = Len(ts)]

\* debounced(...args): clear the pending timeout, set a new one
Debounced(o) ==
    LET cleared == IF o.timeoutId # 0 THEN RemoveAt(o.timers, o.timeoutId) ELSE o.timers
        ts == Append(cleared, DebounceWait)
    IN [o EXCEPT !.timers = ts, !.timeoutId = Len(ts)]

\* debounced.cancel()
DebouncedCancel(o) ==
    IF o.timeoutId # 0
    THEN [o EXCEPT !.timers = RemoveAt(o.timers, o.timeoutId), !.timeoutId = 0]
    ELSE o

\* faulty variant: the cancel function unsubscribes the handler and keeps its timeout
CancelRefKeepsTimeout(o) == [o EXCEPT !.subscribed = FALSE]

\* faulty variant: the cancel function leaves the handler subscribed
CancelRefStaysSubscribed(o) == DebouncedCancel(o)

\* the function stored in imagesLoadedCancelRef: imgLoad.off(event, handler);
\* handler.cancel()
CancelRef(o) == DebouncedCancel([o EXCEPT !.subscribed = FALSE])

\* an observation that is unsubscribed and has no timeout can never act again
Live(obs) == {o \in obs : o.subscribed \/ o.timers # <<>>}

\* the detector and timer calls of a step that changes observations obs into after
CancelCalls(obs, after) ==
    (IF \E o \in obs : o.subscribed /\ \A a \in after : a.id = o.id => ~a.subscribed
     THEN <<Call("imgLoad.off", <<>>)>> ELSE <<>>)
    \o (IF \E o \in obs : \A a \in after : a.id = o.id => Len(a.timers) < Len(o.timers)
        THEN <<Call("clearTimeout", <<>>)>> ELSE <<>>)

\* faulty variant: the reference is dropped without calling the cancel function
derefImagesLoadedForgets(obs, ref) ==
    [obs |-> obs, ref |-> 0, calls |-> <<>>]

\* derefImagesLoaded on the observations: [obs, ref, calls]
derefImagesLoaded(obs, ref) ==
    IF ref # 0
    THEN LET after == Live({IF o.id = ref THEN CancelRef(o) ELSE o : o \in obs})
         IN [obs |-> after, ref |-> 0, calls |-> CancelCalls(obs, after)]
    ELSE [obs |-> obs, ref |-> ref, calls |-> <<>>]

\* faulty variant: disableImagesLoaded is not looked at
ImagesLoadedSkipsIgnoresDisable(p) == ~isBrowser \/ ~hasContainer

\* imagesLoaded() returns early: nothing is observed
ImagesLoadedSkips(p) == p.disableImagesLoaded \/ ~isBrowser \/ ~hasContainer

\* imagesLoaded() with props p: [obs, ref, count, calls]
imagesLoaded(p, obs, ref, count) ==
    IF ImagesLoadedSkips(p)
    THEN [obs |-> obs, ref |-> ref, count |-> count, calls |-> <<>>]
    ELSE LET d == derefImagesLoaded(obs, ref)
             event == IF p.updateOnEachImageLoad THEN "progress" ELSE "always"
         IN [obs |-> d.obs \cup {NewObservation(count + 1, event)},
             ref |-> count + 1, count |-> count + 1,
             calls |-> d.calls \o <<Call("imagesloaded", <<>>),
                                    Call("imgLoad.on", <<event>>)>>]

\* the calls of the debounced function's body (lines 376-381)
HandlerCalls ==
    (IF props.onImagesLoaded THEN <<Call("onImagesLoaded", <<>>)>> ELSE <<>>)
    \o (IF masonry THEN <<Call("layout", <<>>)>> ELSE <<>>)

(***************************************************************************)
(* the lifecycle                                                           *)
(***************************************************************************)
PropsSet ==
    [enableResizableChildren : BOOLEAN, disableImagesLoaded : BOOLEAN,
     updateOnEachImageLoad : BOOLEAN, onImagesLoaded : BOOLEAN,
     onLayoutComplete : Callbacks, onRemoveComplete : Callbacks,
     itemSelector : BOOLEAN]

\* faulty variant: only onLayoutComplete is subscribed
SubscribedLayoutOnly(handlers, p) ==
    handlers
    \cup (IF p.onLayoutComplete # 0 THEN {<<"layoutComplete", p.onLayoutComplete>>} ELSE {})

\* the engine's on(): the handlers after subscribing the supplied callbacks
Subscribed(handlers, p) ==
    handlers
    \cup (IF p.onLayoutComplete # 0 THEN {<<"layoutComplete", p.onLayoutComplete>>} ELSE {})
    \cup (IF p.onRemoveComplete # 0 THEN {<<"removeComplete", p.onRemoveComplete>>} ELSE {})

\* the engine's off() calls of componentWillUnmount (lines 175-181)
Unsubscribed(handlers, p) ==
    handlers \ ((IF p.onLayoutComplete # 0 THEN {<<"layoutComplete", p.onLayoutComplete>>} ELSE {})
                \cup (IF p.onRemoveComplete # 0 THEN {<<"removeComplete", p.onRemoveComplete>>} ELSE {}))

OnOffCalls(op, p) ==
    (IF p.onLayoutComplete # 0 THEN <<Call(op, <<"layoutComplete", p.onLayoutComplete>>)>> ELSE <<>>)
    \o (IF p.onRemoveComplete # 0 THEN <<Call(op, <<"removeComplete", p.onRemoveComplete>>)>> ELSE <<>>)

\* faulty variant: the engine is built without looking for the container
CanInitializeMasonryAnywhere == isBrowser

\* initializeMasonry goes on: the constructor and the container are there
\* (lines 193-196)
CanInitializeMasonry == isBrowser /\ hasContainer

\* the history of the elements handed to appended() and prepended(): not kept,
\* empty, after an update pass handed over the set s, after element n left the
\* container
NoHistory == [kept |-> FALSE, nodes |-> {}]
EmptyHistory == [kept |-> TRUE, nodes |-> {}]
Announce(h, s) == IF h.kept THEN [h EXCEPT !.nodes = @ \cup s] ELSE h
Forget(h, n) == [h EXCEPT !.nodes = @ \ {n}]

\* faulty variant: the engine starts with no known children
InitialKnownEmpty(p) == <<>>

\* line 212: the snapshot initializeMasonry takes when it has built the engine
InitialKnown(p) == getCurrentDomChildren(p)

\* componentDidMount: initializeMasonry, initializeResizableChildren, imagesLoaded
componentDidMount ==
    /\ mPhase = "constructed"
    /\ mPhase' = "mounted"
    /\ LET build == CanInitializeMasonry /\ ~masonry
           il == imagesLoaded(props, observations, imagesLoadedCancelRef, obsCount)
       IN /\ masonry' = (masonry \/ build)
          /\ engine' = IF build
                       THEN [engine EXCEPT !.constructed = @ + 1,
                                           !.handlers = Subscribed(@, props)]
                       ELSE engine
          /\ latestKnownDomChildren' =
                IF build THEN InitialKnown(props) ELSE latestKnownDomChildren
          /\ erd' = (erd \/ (props.enableResizableChildren /\ isBrowser))
          /\ erdListeners' =
                IF props.enableResizableChildren /\ isBrowser
                THEN ListenToAll(erdListeners, latestKnownDomChildren', TRUE)
                ELSE erdListeners
          /\ observations' = il.obs
          /\ imagesLoadedCancelRef' = il.ref
          /\ obsCount' = il.count
          /\ calls' = (IF build THEN <<Call("new", <<>>)>> \o OnOffCalls("on", props)
                       ELSE <<>>) \o il.calls
    /\ diff' = NoDiff
    /\ UNCHANGED <<isBrowser, rvars, domvars, hasContainer, props, announced>>

\* componentDidUpdate after React set this.props to p: performLayout, imagesLoaded
componentDidUpdate(p) ==
    /\ mPhase = "mounted"
    /\ ImagesLoadedSkips(p) \/ obsCount < MaxObservations
    /\ props' = p
    /\ LET d == diffDomChildren(latestKnownDomChildren, getCurrentDomChildren(p))
           il == imagesLoaded(p, observations, imagesLoadedCancelRef, obsCount)
       IN /\ IF masonry
             THEN /\ diff' = d
                  /\ latestKnownDomChildren' = RetainedKnown(d)
                  /\ erdListeners' = ErdAfterLayout(d, p)
                  /\ calls' = EngineCalls(d) \o il.calls
                  /\ announced' = Announce(announced, Range(d.appended) \cup Range(d.prepended))
             ELSE /\ diff' = NoDiff
                  /\ calls' = il.calls
                  /\ UNCHANGED <<latestKnownDomChildren, erdListeners, announced>>
          /\ observations' = il.obs
          /\ imagesLoadedCancelRef' = il.ref
          /\ obsCount' = il.count
    /\ \A n \in Nodes : erdListeners'[n] <= MaxListeners
    /\ UNCHANGED <<isBrowser, rvars, domvars, mPhase, hasContainer, masonry, engine, erd>>

\* faulty variant: unmount leaves the engine alive
DestroyedNever(e) == e

\* this.masonry.destroy() (lines 187-189)
Destroyed(e) == [e EXCEPT !.destroyed = @ + 1]

\* componentWillUnmount
componentWillUnmount ==
    /\ mPhase = "mounted"
    /\ mPhase' = "unmounted"
    /\ erdListeners' =
          IF erd
          THEN [n \in Nodes |-> IF n \in Range(latestKnownDomChildren)
                                THEN 0 ELSE erdListeners[n]]
          ELSE erdListeners
    /\ engine' = IF masonry
                 THEN Destroyed([engine EXCEPT !.handlers = Unsubscribed(@, props)])
                 ELSE engine
    /\ LET d == derefImagesLoaded(observations, imagesLoadedCancelRef)
       IN /\ observations' = d.obs
          /\ imagesLoadedCancelRef' = d.ref
          /\ calls' = (IF masonry THEN OnOffCalls("off", props) ELSE <<>>)
                      \o d.calls
                      \o (IF masonry THEN <<Call("destroy", <<>>)>> ELSE <<>>)
    /\ diff' = NoDiff
    /\ UNCHANGED <<isBrowser, rvars, domvars, hasContainer, props, masonry,
                   latestKnownDomChildren, erd, obsCount, announced>>

\* the release steps of componentWillUnmount that call into a library, in program
\* order: destroyErd (erd.uninstall), masonry.off('layoutComplete'),
\* masonry.off('removeComplete'), derefImagesLoaded (imgLoad.off); masonry.destroy
\* is the step after them
UnmountSteps == {"destroyErd", "offLayoutComplete", "offRemoveComplete", "derefImagesLoaded"}
StepRank(step) ==
    CASE step = "destroyErd" -> 1
      [] step = "offLayoutComplete" -> 2
      [] step = "offRemoveComplete" -> 3
      [] step = "derefImagesLoaded" -> 4

\* componentWillUnmount makes the call of the given step
StepApplies(step) ==
    CASE step = "destroyErd" -> erd /\ latestKnownDomChildren # <<>>
      [] step = "offLayoutComplete" -> props.onLayoutComplete # 0 /\ masonry
      [] step = "offRemoveComplete" -> props.onRemoveComplete # 0 /\ masonry
      [] step = "derefImagesLoaded" -> imagesLoadedCancelRef # 0

\* componentWillUnmount when the library call of the given step throws: the
\* method has no try block, so the steps before it have run, the step itself has
\* released nothing, and the exception leaves the method before the later steps
componentWillUnmountThrows(step) ==
    /\ mPhase = "mounted"
    /\ StepApplies(step)
    /\ mPhase' = "unmounted"
    /\ erdListeners' =
          IF erd /\ StepRank(step) > 1
          THEN [n \in Nodes |-> IF n \in Range(latestKnownDomChildren)
                                THEN 0 ELSE erdListeners[n]]
          ELSE erdListeners
    /\ LET done == [props EXCEPT
                       !.onLayoutComplete = IF StepRank(step) > 2 THEN @ ELSE 0,
                       !.onRemoveComplete = IF StepRank(step) > 3 THEN @ ELSE 0]
       IN /\ engine' = IF masonry
                       THEN [engine EXCEPT !.handlers = Unsubscribed(@, done)]
                       ELSE engine
          /\ calls' = (IF masonry THEN OnOffCalls("off", done) ELSE <<>>)
                      \o <<Call("throw", <<step>>)>>
    /\ diff' = NoDiff
    /\ UNCHANGED <<isBrowser, rvars, domvars, hasContainer, props, masonry,
                   latestKnownDomChildren, erd, obsCount, announced,
                   observations, imagesLoadedCancelRef>>

(***************************************************************************)
(* the environment: DOM changes, image-load notifications, time            *)
(***************************************************************************)
\* the elements that get put under another parent, and those whose class changes
MaxForeign == 1
MaxReclassed == 1
ForeignNodes == 1..MaxForeign
ReclassedNodes == {n \in Nodes : n > MaxNodes - MaxReclassed}

DomStep ==
    /\ isBrowser /\ hasContainer
    /\ mPhase # "unmounted"
    /\ calls' = <<>>
    /\ diff' = NoDiff
    /\ UNCHANGED <<isBrowser, rvars, mPhase, hasContainer, props, masonry, engine,
                   latestKnownDomChildren, erd, erdListeners,
                   imagesLoadedCancelRef, observations, obsCount>>

\* element n is inserted into (or moved within) the container before position i
DomInsert(n, i) ==
    /\ DomStep
    /\ i \in 1..(Len(Without(containerChildren, n)) + 1)
    /\ containerChildren' = InsertAt(Without(containerChildren, n), i, n)
    /\ containerChildren' # containerChildren
    /\ elsewhere' = elsewhere \ {n}
    /\ UNCHANGED <<matching, announced>>

\* element n is removed from its parent
DomDetach(n) ==
    /\ DomStep
    /\ HasParent(n)
    /\ containerChildren' = Without(containerChildren, n)
    /\ elsewhere' = elsewhere \ {n}
    /\ announced' = Forget(announced, n)
    /\ UNCHANGED matching

\* element n is put under a parent other than the container
DomMoveElsewhere(n) ==
    /\ DomStep
    /\ n \notin elsewhere
    /\ containerChildren' = Without(containerChildren, n)
    /\ elsewhere' = elsewhere \cup {n}
    /\ announced' = Forget(announced, n)
    /\ UNCHANGED matching

\* a child's class changes, so that the item selector matches it or no longer does
DomToggleMatch(n) ==
    /\ DomStep
    /\ props.itemSelector
    /\ n \in Range(containerChildren)
    /\ matching' = IF n \in matching THEN matching \ {n} ELSE matching \cup {n}
    /\ UNCHANGED <<containerChildren, elsewhere, announced>>

\* faulty variant: the resize listener reloads the items before the layout
ResizeListenerReloads ==
    IF masonry THEN <<Call("reloadItems", <<>>), Call("layout", <<>>)>> ELSE <<>>

\* the body of the listener passed to erd.listenTo (lines 410-414)
ResizeListener == IF masonry THEN <<Call("layout", <<>>)>> ELSE <<>>

\* element n, which is in the document, changed size and the resize detector
\* calls one of the listeners registered for it
ElementResize(n) ==
    /\ erd
    /\ erdListeners[n] > 0
    /\ n \in elsewhere \/ (n \in Range(containerChildren) /\ mPhase = "mounted")
    /\ calls' = <<Call("resized", <<n>>)>> \o ResizeListener
    /\ diff' = NoDiff
    /\ UNCHANGED <<isBrowser, rvars, domvars, mPhase, hasContainer, props, masonry,
                   engine, latestKnownDomChildren, erd, erdListeners,
                   imagesLoadedCancelRef, observations, obsCount, announced>>

EnvStep ==
    /\ diff' = NoDiff
    /\ UNCHANGED <<isBrowser, rvars, domvars, mPhase, hasContainer, props, masonry,
                   engine, latestKnownDomChildren, erd, erdListeners,
                   imagesLoadedCancelRef, obsCount, announced>>

\* the detector emits the event observation o's handler is subscribed to
ImageNotification(o) ==
    /\ EnvStep
    /\ o \in observations
    /\ o.subscribed
    /\ o.notifs < MaxBurst
    /\ LET fresh == o.quiet = -1 \/ o.funcRuns > 0
           d == Debounced(o)
       IN observations' = (observations \ {o}) \cup
             {[d EXCEPT !.quiet = 0,
                        !.notifs = IF fresh THEN 1 ELSE @ + 1,
                        !.funcRuns = IF fresh THEN 0 ELSE @,
                        !.cbRuns = IF fresh THEN 0 ELSE @,
                        !.layoutRuns = IF fresh THEN 0 ELSE @]}
    /\ calls' = <<>>

AfterTick(o) ==
    [o EXCEPT !.timers = [i \in DOMAIN o.timers |->
                             IF o.timers[i] > TimeStep THEN o.timers[i] - TimeStep ELSE 0],
              !.quiet = IF @ = -1 THEN -1
                        ELSE IF @ + TimeStep < DebounceWait THEN @ + TimeStep
                        ELSE DebounceWait]

\* TimeStep milliseconds pass
Tick ==
    /\ EnvStep
    /\ \E o \in observations : AfterTick(o) # o
    /\ observations' = {AfterTick(o) : o \in observations}
    /\ calls' = <<>>

\* timeout i of observation o's handler is due: the debounced function runs
TimerFire(o, i) ==
    /\ EnvStep
    /\ o \in observations
    /\ i \in DOMAIN o.timers
    /\ o.timers[i] = 0
    /\ calls' = HandlerCalls
    /\ observations' = Live((observations \ {o}) \cup
          {[o EXCEPT !.timers = RemoveAt(@, i),
                     !.timeoutId = 0,
                     !.funcRuns = @ + 1,
                     !.cbRuns = @ + (IF props.onImagesLoaded THEN 1 ELSE 0),
                     !.layoutRuns = @ + (IF masonry THEN 1 ELSE 0)]})

(***************************************************************************)
(* Specifications                                                          *)
(***************************************************************************)
RIdle ==
    /\ rmPhase = "idle"
    /\ columnsCountBreakPoints = <<>>
    /\ childIsFunction = FALSE
    /\ innerWidth = 0
    /\ resizeQueued = FALSE
    /\ columnsCount = 0
    /\ handleResize = [id |-> 0, breakPoints |-> <<>>]
    /\ resizeListeners = {}
    /\ callbackGen = 0
    /\ dataColumnsCount = 0
    /\ childArg = 0
    /\ rLast = "none"
    /\ didRender = FALSE

\* a MasonryComponent whose constructor has run
MConstructed ==
    /\ mPhase = "constructed"
    /\ masonry = FALSE
    /\ engine = [constructed |-> 0, destroyed |-> 0, handlers |-> {}]
    /\ latestKnownDomChildren = <<>>
    /\ erd = FALSE
    /\ erdListeners = [n \in Nodes |-> 0]
    /\ imagesLoadedCancelRef = 0
    /\ observations = {}
    /\ obsCount = 0
    /\ calls = <<>>
    /\ diff = NoDiff

MIdle ==
    /\ MConstructed
    /\ announced = NoHistory
    /\ hasContainer = FALSE
    /\ props = [enableResizableChildren |-> FALSE, disableImagesLoaded |-> TRUE,
                updateOnEachImageLoad |-> FALSE, onImagesLoaded |-> FALSE,
                onLayoutComplete |-> 0, onRemoveComplete |-> 0,
                itemSelector |-> FALSE]
    /\ containerChildren = <<>>
    /\ elsewhere = {}
    /\ matching = Nodes

DomProps ==
    [enableResizableChildren : {FALSE}, disableImagesLoaded : {TRUE},
     updateOnEachImageLoad : {FALSE}, onImagesLoaded : {FALSE},
     onLayoutComplete : {0}, onRemoveComplete : {0}, itemSelector : BOOLEAN]

\* React has rendered any children into the container (when there is one);
\* image-load and resize observation are switched off
Init ==
    /\ RIdle
    /\ MConstructed
    /\ isBrowser \in BOOLEAN
    /\ hasContainer \in BOOLEAN
    /\ props \in DomProps
    /\ containerChildren \in (IF isBrowser /\ hasContainer
                              THEN Arrangements(Nodes) ELSE {<<>>})
    /\ elsewhere = {}
    /\ matching = Nodes
    /\ announced = NoHistory

Next ==
    \/ componentDidMount
    \/ componentDidUpdate(props)
    \/ componentWillUnmount
    \/ \E n \in Nodes, i \in 1..MaxNodes : DomInsert(n, i)
    \/ \E n \in Nodes : DomDetach(n)
    \/ \E n \in ForeignNodes : DomMoveElsewhere(n)
    \/ \E n \in ReclassedNodes : DomToggleMatch(n)

Spec == Init /\ [][Next]_vars

\* a browser with a container of two children; the image-load props change
\* from update to update
LifeProps ==
    [enableResizableChildren : {FALSE}, disableImagesLoaded : BOOLEAN,
     updateOnEachImageLoad : BOOLEAN, onImagesLoaded : BOOLEAN,
     onLayoutComplete : {1}, onRemoveComplete : {0}, itemSelector : {FALSE}]

InitLife ==
    /\ RIdle
    /\ MConstructed
    /\ isBrowser = TRUE
    /\ hasContainer = TRUE
    /\ props \in LifeProps
    /\ containerChildren = <<1, 2>>
    /\ elsewhere = {}
    /\ matching = Nodes
    /\ announced = NoHistory

NextLife ==
    \/ componentDidMount
    \/ \E p \in LifeProps : componentDidUpdate(p)
    \/ componentWillUnmount
    \/ \E o \in observations : ImageNotification(o)
    \/ Tick
    \/ \E o \in observations : \E i \in DOMAIN o.timers : TimerFire(o, i)

SpecLife == InitLife /\ [][NextLife]_vars

\* a component whose onLayoutComplete and onRemoveComplete props change from
\* update to update, over a container whose children come and go
EventProps ==
    [enableResizableChildren : {FALSE}, disableImagesLoaded : {TRUE},
     updateOnEachImageLoad : {FALSE}, onImagesLoaded : {FALSE},
     onLayoutComplete : Callbacks, onRemoveComplete : Callbacks,
     itemSelector : {FALSE}]

InitEvents ==
    /\ RIdle
    /\ MConstructed
    /\ isBrowser \in BOOLEAN
    /\ hasContainer = TRUE
    /\ props \in EventProps
    /\ containerChildren \in (IF isBrowser THEN {<<>>, <<1>>} ELSE {<<>>})
    /\ elsewhere = {}
    /\ matching = Nodes
    /\ announced = NoHistory

NextEvents ==
    \/ componentDidMount
    \/ \E p \in EventProps : componentDidUpdate(p)
    \/ componentWillUnmount
    \/ DomInsert(1, 1)
    \/ DomDetach(1)

SpecEvents == InitEvents /\ [][NextEvents]_vars

\* a browser with a container whose children are matched by an item selector;
\* some of them stay, the others come and go and change class; the history of the
\* announced elements is kept
SelectorProps ==
    [enableResizableChildren : {FALSE}, disableImagesLoaded : {TRUE},
     updateOnEachImageLoad : {FALSE}, onImagesLoaded : {FALSE},
     onLayoutComplete : {0}, onRemoveComplete : {0}, itemSelector : {TRUE}]

InitSelector ==
    /\ RIdle
    /\ MConstructed
    /\ isBrowser = TRUE
    /\ hasContainer = TRUE
    /\ props \in SelectorProps
    /\ containerChildren \in Arrangements(Nodes)
    /\ elsewhere = {}
    /\ matching = Nodes
    /\ announced = EmptyHistory

NextSelector ==
    \/ componentDidMount
    \/ componentDidUpdate(props)
    \/ componentWillUnmount
    \/ \E n \in ReclassedNodes, i \in 1..MaxNodes : DomInsert(n, i)
    \/ \E n \in ReclassedNodes : DomDetach(n)
    \/ \E n \in ReclassedNodes : DomToggleMatch(n)

SpecSelector == InitSelector /\ [][NextSelector]_vars

\* a browser with a container whose children are watched by the resize detector;
\* some of them stay, the others come, go and change parent
ResizeProps ==
    [enableResizableChildren : {TRUE}, disableImagesLoaded : {TRUE},
     updateOnEachImageLoad : {FALSE}, onImagesLoaded : {FALSE},
     onLayoutComplete : {0}, onRemoveComplete : {0}, itemSelector : {FALSE}]

InitResize ==
    /\ RIdle
    /\ MConstructed
    /\ isBrowser = TRUE
    /\ hasContainer = TRUE
    /\ props \in ResizeProps
    /\ containerChildren \in Arrangements(Nodes)
    /\ elsewhere = {}
    /\ matching = Nodes
    /\ announced = NoHistory

NextResize ==
    \/ componentDidMount
    \/ componentDidUpdate(props)
    \/ componentWillUnmount
    \/ \E n \in ForeignNodes, i \in 1..MaxNodes : DomInsert(n, i)
    \/ \E n \in ForeignNodes : DomDetach(n)
    \/ \E n \in ForeignNodes : DomMoveElsewhere(n)
    \/ \E n \in Nodes : ElementResize(n)

SpecResize == InitResize /\ [][NextResize]_vars

\* a browser with a container of two children, every kind of release to make at
\* unmount, and library calls that may throw during unmount
FaultProps ==
    [enableResizableChildren : BOOLEAN, disableImagesLoaded : BOOLEAN,
     updateOnEachImageLoad : {FALSE}, onImagesLoaded : {FALSE},
     onLayoutComplete : {0, 1}, onRemoveComplete : {0, 1}, itemSelector : {FALSE}]

InitFaults ==
    /\ RIdle
    /\ MConstructed
    /\ isBrowser = TRUE
    /\ hasContainer = TRUE
    /\ props \in FaultProps
    /\ containerChildren = <<1, 2>>
    /\ elsewhere = {}
    /\ matching = Nodes
    /\ announced = NoHistory

NextFaults ==
    \/ componentDidMount
    \/ componentDidUpdate(props)
    \/ componentWillUnmount
    \/ \E step \in UnmountSteps : componentWillUnmountThrows(step)
    \/ \E o \in observations : ImageNotification(o)
    \/ Tick
    \/ \E o \in observations : \E i \in DOMAIN o.timers : TimerFire(o, i)

SpecFaults == InitFaults /\ [][NextFaults]_vars

InitResponsive == RInit /\ MIdle

NextResponsive ==
    \/ RRender
    \/ RMountEffect
    \/ \E w \in Widths : RWindowResize(w)
    \/ RDeliverResize
    \/ \E k \in Widths, v \in 0..MaxColumns, fn \in BOOLEAN : RRerenderNewTable(k, v, fn)
    \/ \E fn \in BOOLEAN : RRerenderSameTable(fn)
    \/ RUnmount

SpecResponsive == InitResponsive /\ [][NextResponsive]_vars

(***************************************************************************)
(* Properties                                                              *)
(***************************************************************************)
\* the keys of table that are <= w
KeysUpTo(table, w) == {k \in DOMAIN table : k <= w}

\* C1: for every width w and breakpoint table T, getColumnsCount(w, T) is the
\* value of T's largest key that is <= w, and 1 when T has no such key; a
\* width equal to a key selects that key's value.
C1_LargestKeyAtMostWidth ==
    \A w \in Widths :
        LET K == KeysUpTo(columnsCountBreakPoints, w)
        IN getColumnsCount(w, columnsCountBreakPoints) =
              IF K = {} THEN 1 ELSE columnsCountBreakPoints[SetMax(K)]

\* a mounted component whose width equals a key that lies between a smaller and
\* a larger key with other values, and whose state holds that key's value
C1_Witness ==
    /\ rmPhase = "mounted"
    /\ ~resizeQueued
    /\ innerWidth \in DOMAIN columnsCountBreakPoints
    /\ \E k \in DOMAIN columnsCountBreakPoints :
          k < innerWidth /\ columnsCountBreakPoints[k] # columnsCountBreakPoints[innerWidth]
    /\ \E k \in DOMAIN columnsCountBreakPoints :
          k > innerWidth /\ columnsCountBreakPoints[k] # columnsCountBreakPoints[innerWidth]
    /\ columnsCount = columnsCountBreakPoints[innerWidth]

\* C9: while ResponsiveMasonry is mounted in a browser exactly one resize
\* listener of it is registered on window, the current handleResize, also after
\* re-renders that change the breakpoint table; before mount and after unmount
\* none is registered.
C9_OneResizeListener ==
    /\ (rmPhase = "mounted" /\ isBrowser) =>
          (Cardinality(resizeListeners) = 1 /\ resizeListeners = {handleResize})
    /\ rmPhase # "mounted" => resizeListeners = {}

\* mounted, after a re-render that replaced the table and so handleResize
C9_Witness ==
    /\ rmPhase = "mounted"
    /\ rLast = "rerender"
    /\ handleResize.id > 0
    /\ Cardinality(resizeListeners) = 1

\* C10: after mount and after every handled resize event the columnsCount
\* state equals getColumnsCount(current width, current table); the rendered
\* data-columns-count attribute and the argument of a function child carry the
\* same value.
C10_StateFollowsWidth ==
    (rmPhase = "mounted" /\ ~resizeQueued) =>
        /\ columnsCount = getColumnsCount(innerWidth, columnsCountBreakPoints)
        /\ dataColumnsCount = columnsCount
        /\ childIsFunction => childArg = columnsCount

\* a resize event has just been handled and changed the count given to the
\* function child
C10_Witness ==
    /\ rmPhase = "mounted"
    /\ rLast = "deliver"
    /\ childIsFunction
    /\ innerWidth > 0
    /\ columnsCount # getColumnsCount(0, columnsCountBreakPoints)
    /\ childArg = columnsCount
    /\ dataColumnsCount = columnsCount

\* the calls of the most recent step that went to the layout engine's item and
\* layout operations
EngineOperations == {"remove", "appended", "prepended", "reloadItems", "layout"}
EngineOps == SelectSeq(calls, LAMBDA c : c.op \in EngineOperations)

\* C2 as stated: a diff whose known list is empty reports every current child
\* as appended and none as prepended.
C2_EmptyKnownAppends ==
    (diff.ran /\ diff.known = <<>>) =>
        (diff.appended = diff.new /\ diff.prepended = <<>>)

\* C2: a diff whose known list is empty and whose current list is C reports
\* every node of C as prepended, in order, and nothing as appended, removed or
\* moved, whatever C holds.
C2_EmptyKnownPrepends ==
    (diff.ran /\ diff.known = <<>>) =>
        /\ diff.new = getCurrentDomChildren(props)
        /\ diff.prepended = diff.new
        /\ diff.appended = <<>>
        /\ diff.removed = <<>>
        /\ diff.moved = <<>>

\* an update pass that found two or more children while none was known
C2_Witness ==
    /\ diff.ran
    /\ diff.known = <<>>
    /\ Len(diff.new) >= 2
    /\ diff.prepended = diff.new
    /\ EngineOps = <<Call("prepended", diff.new), Call("layout", <<>>)>>

\* the most recent update pass found every known node still attached and the
\* current children to be k >= 1 new nodes followed by the known list
InsertedAtFront(k) ==
    /\ diff.ran
    /\ diff.old = diff.known
    /\ k >= 1
    /\ Len(getCurrentDomChildren(props)) = k + Len(diff.known)
    /\ SubSeq(getCurrentDomChildren(props), k + 1, k + Len(diff.known)) = diff.known

\* C3 as stated: new nodes inserted in front of a fully attached known list
\* are the prepended list, and the appended and moved lists are empty.
C3_FrontInsertMovesNothing ==
    \A k \in 1..MaxNodes :
        InsertedAtFront(k) =>
            /\ diff.prepended = SubSeq(getCurrentDomChildren(props), 1, k)
            /\ diff.appended = <<>>
            /\ diff.moved = <<>>

\* C3: new nodes inserted in front of a fully attached known list are the
\* prepended list, the appended list is empty, and the moved list is the whole
\* known list, every known node having changed its index.
C3_FrontInsertMovesAllKnown ==
    \A k \in 1..MaxNodes :
        InsertedAtFront(k) =>
            /\ diff.prepended = SubSeq(getCurrentDomChildren(props), 1, k)
            /\ diff.appended = <<>>
            /\ diff.removed = <<>>
            /\ diff.moved = diff.known

\* one node was inserted in front of two known nodes
C3_Witness ==
    /\ InsertedAtFront(1)
    /\ Len(diff.known) = 2
    /\ Len(diff.prepended) = 1
    /\ diff.moved = diff.known

\* C4: when a node of the known list has no parent at the time of an update
\* pass, the diff's forceItemReload is true whatever else changed, and the pass
\* calls reloadItems and then layout on the engine.
C4_DetachedKnownForcesReload ==
    /\ (diff.ran /\ \E n \in Range(diff.known) : ~HasParent(n)) =>
          /\ diff.forceItemReload
          /\ Len(EngineOps) >= 2
          /\ EngineOps[Len(EngineOps) - 1].op = "reloadItems"
          /\ EngineOps[Len(EngineOps)].op = "layout"
    /\ (mPhase = "mounted" /\ latestKnownDomChildren # <<>>) => masonry

\* a pass that found a known node detached while another node had been added
C4_Witness ==
    /\ diff.ran
    /\ \E n \in Range(diff.known) : ~HasParent(n)
    /\ diff.removed = <<>>
    /\ Len(diff.prepended) + Len(diff.appended) > 0
    /\ diff.forceItemReload
    /\ \E i \in DOMAIN calls : calls[i].op = "reloadItems"

\* the position of an engine operation in performLayout
OpRank(op) ==
    CASE op = "remove" -> 1
      [] op = "appended" -> 2
      [] op = "prepended" -> 3
      [] op = "reloadItems" -> 4
      [] op = "layout" -> 5

\* C5: the engine operations of one update pass come in the order remove,
\* appended, prepended, reloadItems, layout: each at most once, the removal
\* and the insertions exactly when their list is non-empty and with that list,
\* and layout always and last.
C5_EngineCallOrder ==
    diff.ran =>
        /\ \A i, j \in DOMAIN EngineOps :
              i < j => OpRank(EngineOps[i].op) < OpRank(EngineOps[j].op)
        /\ EngineOps # <<>>
        /\ EngineOps[Len(EngineOps)].op = "layout"
        /\ \A l \in {"remove", "appended", "prepended"} :
              LET list == CASE l = "remove" -> diff.removed
                            [] l = "appended" -> diff.appended
                            [] l = "prepended" -> diff.prepended
              IN (list # <<>>) <=> (Call(l, list) \in Range(EngineOps))
        /\ \A c \in Range(EngineOps) :
              c.op \in {"remove", "appended", "prepended"} => c.arg # <<>>

\* a pass that removed a node, appended another and reloaded the items
C5_Witness ==
    /\ diff.ran
    /\ Len(EngineOps) = 4
    /\ EngineOps[1] = Call("remove", diff.removed)
    /\ EngineOps[2] = Call("appended", diff.appended)
    /\ EngineOps[3].op = "reloadItems"
    /\ EngineOps[4].op = "layout"

C7_NothingFiresAfterUnmount ==
    mPhase = "unmounted" =>
        /\ \A o \in observations : ~o.subscribed /\ o.timers = <<>>
        /\ imagesLoadedCancelRef = 0
        /\ \A i \in DOMAIN calls : calls[i].op \notin {"onImagesLoaded", "layout"}

\* the unmount has just unsubscribed a handler and cleared its pending timeout
C7_Witness ==
    /\ mPhase = "unmounted"
    /\ obsCount >= 2
    /\ \E i \in DOMAIN calls : calls[i].op = "imgLoad.off"
    /\ \E i \in DOMAIN calls : calls[i].op = "clearTimeout"
    /\ observations = {}

\* C8 as stated: after the unmount of a component that built its engine, no
\* handler the component subscribed is left on the engine and destroy has been
\* called exactly once, whatever updates came before.
C8_HandlersReleased ==
    (mPhase = "unmounted" /\ masonry) =>
        (engine.handlers = {} /\ engine.destroyed = 1)

\* C11 as stated: for every table, getColumnsCount never decreases when the
\* width grows.
C11_MonotonicInWidth ==
    \A w1, w2 \in Widths :
        w1 <= w2 => getColumnsCount(w1, columnsCountBreakPoints)
                       <= getColumnsCount(w2, columnsCountBreakPoints)

\* the table's values never decrease when the key grows
NonDecreasingTable(table) ==
    \A k1, k2 \in DOMAIN table : k1 <= k2 => table[k1] <= table[k2]

\* C11: for every table whose (positive) column counts never decrease when the
\* key grows, getColumnsCount never decreases when the width grows; a table
\* with a larger count at a smaller key makes it decrease.
C11_MonotonicForNonDecreasingTable ==
    /\ NonDecreasingTable(columnsCountBreakPoints) =>
          \A w1, w2 \in Widths :
              w1 <= w2 => getColumnsCount(w1, columnsCountBreakPoints)
                             <= getColumnsCount(w2, columnsCountBreakPoints)
    /\ \A k1, k2 \in DOMAIN columnsCountBreakPoints :
          (k1 < k2 /\ columnsCountBreakPoints[k1] > columnsCountBreakPoints[k2]) =>
              getColumnsCount(k1, columnsCountBreakPoints)
                 > getColumnsCount(k2, columnsCountBreakPoints)

\* a handled resize to a larger width raised the count under a table whose
\* counts grow with the key
C11_Witness ==
    /\ rmPhase = "mounted"
    /\ rLast = "deliver"
    /\ NonDecreasingTable(columnsCountBreakPoints)
    /\ Cardinality(DOMAIN columnsCountBreakPoints) >= 2
    /\ innerWidth > 0
    /\ columnsCount = getColumnsCount(innerWidth, columnsCountBreakPoints)
    /\ columnsCount > getColumnsCount(0, columnsCountBreakPoints)

\* a diff result without any change
EmptyDiff(d) ==
    /\ d.removed = <<>>
    /\ d.appended = <<>>
    /\ d.prepended = <<>>
    /\ d.moved = <<>>
    /\ ~d.forceItemReload

\* C12: when every known node is still attached and the current list is the
\* known list (same nodes, same order), the diff's removed, appended, prepended
\* and moved lists are empty and forceItemReload is false.
C12_IdenticalListsEmptyDiff ==
    (diff.ran /\ diff.old = diff.known /\ diff.new = diff.known) => EmptyDiff(diff)

\* an update pass over two or more unchanged children, which only lays out
C12_Witness ==
    /\ diff.ran
    /\ Len(diff.known) >= 2
    /\ diff.old = diff.known
    /\ diff.new = diff.known
    /\ EngineOps = <<Call("layout", <<>>)>>

\* C13: after diffDomChildren has run for a current list C, the component's
\* latestKnownDomChildren is C (same nodes, same order), and the diff of that
\* list with the unchanged DOM has empty removed, appended, prepended and moved
\* lists and no forced reload.
C13_DiffRetainsCurrent ==
    diff.ran =>
        /\ diff.new = getCurrentDomChildren(props)
        /\ latestKnownDomChildren = diff.new
        /\ EmptyDiff(diffDomChildren(latestKnownDomChildren, getCurrentDomChildren(props)))

\* a pass that found a known node detached and a new one added has stored the
\* current children
C13_Witness ==
    /\ diff.ran
    /\ diff.forceItemReload
    /\ Len(diff.prepended) + Len(diff.appended) > 0
    /\ Len(diff.new) >= 2
    /\ latestKnownDomChildren = diff.new
    /\ latestKnownDomChildren # diff.known

\* the most recent update pass found every known node still attached and the
\* current children to be the known list followed by k >= 1 new nodes
AddedAtBack(k) ==
    /\ diff.ran
    /\ diff.old = diff.known
    /\ k >= 1
    /\ Len(diff.new) = Len(diff.known) + k
    /\ SubSeq(diff.new, 1, Len(diff.known)) = diff.known

\* the nodes after the known list in the current list
NodesAtBack == SubSeq(diff.new, Len(diff.known) + 1, Len(diff.new))

\* C14 as stated: new nodes after a fully attached known list are the appended
\* list, in order, the prepended list is empty, and the pass calls the engine's
\* appended with them.
C14_BackInsertAppends ==
    \A k \in 1..MaxNodes :
        AddedAtBack(k) =>
            /\ diff.appended = NodesAtBack
            /\ diff.prepended = <<>>
            /\ Call("appended", NodesAtBack) \in Range(EngineOps)

\* C14: new nodes after a fully attached, non-empty known list are the appended
\* list, in order, the prepended list is empty, and the pass calls the engine's
\* appended with them; when the known list is empty the same nodes are the
\* prepended list and the pass calls the engine's prepended with them.
C14_BackInsertAfterKnownAppends ==
    \A k \in 1..MaxNodes :
        AddedAtBack(k) =>
            IF diff.known # <<>>
            THEN /\ diff.appended = NodesAtBack
                 /\ diff.prepended = <<>>
                 /\ Call("appended", NodesAtBack) \in Range(EngineOps)
            ELSE /\ diff.prepended = NodesAtBack
                 /\ diff.appended = <<>>
                 /\ Call("prepended", NodesAtBack) \in Range(EngineOps)

\* two nodes were added after one known node and passed to the engine's appended
C14_Witness ==
    /\ AddedAtBack(2)
    /\ Len(diff.known) = 1
    /\ diff.appended = NodesAtBack
    /\ EngineOps[1] = Call("appended", NodesAtBack)

\* C15: every update pass of a component that has an engine calls the engine's
\* layout exactly once, whether or not the children changed and whether or not
\* the items were reloaded.
C15_OneLayoutPerPass ==
    diff.ran => Cardinality({i \in DOMAIN calls : calls[i].op = "layout"}) = 1

\* a pass over unchanged children called layout once and reloaded nothing
C15_Witness ==
    /\ diff.ran
    /\ diff.new = diff.known
    /\ diff.known # <<>>
    /\ \A i \in DOMAIN calls : calls[i].op # "reloadItems"
    /\ Cardinality({i \in DOMAIN calls : calls[i].op = "layout"}) = 1

\* the largest column count of a table
MaxColumnValue(table) == SetMax({table[k] : k \in DOMAIN table})

\* C16: rendered where there is no window, ResponsiveMasonry's initial column
\* count is the largest value of the breakpoint table, or 1 for an empty table,
\* and the data-columns-count attribute and a function child get that value.
C16_ServerRenderUsesLargestValue ==
    (~isBrowser /\ rmPhase = "rendered") =>
        /\ columnsCount = IF DOMAIN columnsCountBreakPoints = {} THEN 1
                          ELSE MaxColumnValue(columnsCountBreakPoints)
        /\ dataColumnsCount = columnsCount
        /\ childIsFunction => childArg = columnsCount

\* a server render with a function child of a table whose largest value is not
\* the value of its largest key
C16_Witness ==
    /\ ~isBrowser
    /\ rmPhase = "rendered"
    /\ childIsFunction
    /\ DOMAIN columnsCountBreakPoints # {}
    /\ columnsCountBreakPoints[SetMax(DOMAIN columnsCountBreakPoints)]
          < MaxColumnValue(columnsCountBreakPoints)
    /\ childArg = MaxColumnValue(columnsCountBreakPoints)
    /\ dataColumnsCount = childArg

\* C17: with an empty breakpoint table getColumnsCount is 1 for every width,
\* and the column count of ResponsiveMasonry is 1 after the first render, after
\* mount and after every resize, in a browser or not.
C17_EmptyTableGivesOne ==
    DOMAIN columnsCountBreakPoints = {} =>
        /\ \A w \in Widths : getColumnsCount(w, columnsCountBreakPoints) = 1
        /\ rmPhase \in {"rendered", "mounted"} =>
              (columnsCount = 1 /\ dataColumnsCount = 1)

\* a resize was handled by a mounted component with an empty table
C17_Witness ==
    /\ DOMAIN columnsCountBreakPoints = {}
    /\ rmPhase = "mounted"
    /\ rLast = "deliver"
    /\ innerWidth > 0
    /\ columnsCount = 1

\* the resize event that is waiting meets a mounted component whose column
\* count already fits the new width
ResizeToEqualCount ==
    /\ rmPhase = "mounted"
    /\ resizeQueued
    /\ getColumnsCount(innerWidth, columnsCountBreakPoints) = columnsCount

\* C20: a resize event after which getColumnsCount(new width, table) equals
\* the current column count leaves the column-count state as it is and renders
\* nothing.
C20_EqualCountNoUpdate ==
    [][(ResizeToEqualCount /\ ~resizeQueued') =>
          /\ columnsCount' = columnsCount
          /\ ~didRender'
          /\ dataColumnsCount' = dataColumnsCount
          /\ childArg' = childArg]_vars

\* a resize to another width with the same count was handled without a render
C20_Witness ==
    /\ rmPhase = "mounted"
    /\ rLast = "deliver"
    /\ ~didRender
    /\ \E w \in Widths :
          /\ w # innerWidth
          /\ getColumnsCount(w, columnsCountBreakPoints) = columnsCount
    /\ columnsCount = getColumnsCount(innerWidth, columnsCountBreakPoints)
    /\ \E w \in Widths : getColumnsCount(w, columnsCountBreakPoints) # columnsCount

\* the calls that go to the layout engine (constructor and event subscription
\* included)
EngineCallNames == EngineOperations \cup {"new", "on", "off", "destroy"}

\* C18: a component mounted where the engine constructor or the container is
\* missing never gets an engine: after mount, after every update and after the
\* unmount no engine has been constructed, latestKnownDomChildren is empty, no
\* diff has run and no step has made a call on an engine.
C18_PassiveWithoutEngine ==
    (~(isBrowser /\ hasContainer) /\ mPhase \in {"mounted", "unmounted"}) =>
        /\ ~masonry
        /\ engine = [handlers |-> {}, constructed |-> 0, destroyed |-> 0]
        /\ latestKnownDomChildren = <<>>
        /\ ~diff.ran
        /\ \A i \in DOMAIN calls : calls[i].op \notin EngineCallNames

\* a component without a container has been mounted and unmounted in a browser
C18_Witness ==
    /\ isBrowser
    /\ ~hasContainer
    /\ mPhase = "unmounted"
    /\ ~masonry
    /\ engine.constructed = 0
    /\ calls = <<>>

\* the ids of the observations whose handler is subscribed to the detector
SubscribedIds(obs) == {o.id : o \in {x \in obs : x.subscribed}}

\* C19: a mount or update pass whose props have disableImagesLoaded set starts
\* no image-load observation: it neither calls imagesloaded nor subscribes a
\* handler.
C19_DisabledStartsNoObservation ==
    [][(/\ props'.disableImagesLoaded
        /\ mPhase' = "mounted"
        /\ mPhase = "constructed" \/ diff'.ran) =>
          /\ obsCount' = obsCount
          /\ SubscribedIds(observations') \subseteq SubscribedIds(observations)
          /\ imagesLoadedCancelRef' = imagesLoadedCancelRef
          /\ \A i \in DOMAIN calls' :
                calls'[i].op \notin {"imagesloaded", "imgLoad.on"}]_vars

\* an update pass with disableImagesLoaded set has run after an earlier pass
\* had started an observation
C19_Witness ==
    /\ props.disableImagesLoaded
    /\ diff.ran
    /\ obsCount >= 1
    /\ \E i \in DOMAIN calls : calls[i].op = "layout"
    /\ \A i \in DOMAIN calls : calls[i].op # "imagesloaded"


\* C21: an instance constructs at most one engine in its life: exactly one once it
\* is mounted where the constructor and the container are there, none otherwise;
\* no update pass constructs another; the engine is destroyed, once, at unmount
C21_OneEnginePerInstance ==
    /\ engine.constructed <= 1
    /\ masonry <=> engine.constructed = 1
    /\ mPhase = "constructed" => engine.constructed = 0
    /\ mPhase \in {"mounted", "unmounted"} => (masonry <=> CanInitializeMasonry)
    /\ diff.ran => \A i \in DOMAIN calls : calls[i].op # "new"
    /\ mPhase = "mounted" => engine.destroyed = 0
    /\ mPhase = "unmounted" => engine.destroyed = engine.constructed

C21_Witness ==
    /\ mPhase = "unmounted"
    /\ engine.constructed = 1
    /\ engine.destroyed = 1
    /\ latestKnownDomChildren # <<>>

\* the on() calls of a step's log that subscribe callback cb to event ev
OnCallsFor(log, ev, cb) ==
    {i \in DOMAIN log : log[i].op = "on" /\ log[i].arg = <<ev, cb>>}

\* C22: the mount that builds the engine subscribes each supplied callback
\* exactly once (onLayoutComplete to layoutComplete, onRemoveComplete to
\* removeComplete) and nothing else; no step of a mounted component, an update
\* pass in particular, adds or changes a subscription of the engine.
C22_SubscribedOnceAtMount ==
    [][/\ (mPhase = "constructed" /\ mPhase' = "mounted" /\ masonry') =>
            /\ engine'.handlers =
                  {h \in {<<"layoutComplete", props.onLayoutComplete>>,
                          <<"removeComplete", props.onRemoveComplete>>} : h[2] # 0}
            /\ \A h \in engine'.handlers :
                  Cardinality(OnCallsFor(calls', h[1], h[2])) = 1
            /\ Cardinality({i \in DOMAIN calls' : calls'[i].op = "on"})
                  = Cardinality(engine'.handlers)
       /\ (mPhase = "mounted" /\ mPhase' = "mounted") =>
            /\ engine'.handlers = engine.handlers
            /\ \A i \in DOMAIN calls' : calls'[i].op \notin {"on", "off"}]_vars

\* an update pass has run with callbacks other than the ones subscribed at mount
C22_Witness ==
    /\ mPhase = "mounted"
    /\ diff.ran
    /\ engine.handlers = {<<"layoutComplete", 1>>, <<"removeComplete", 2>>}
    /\ props.onLayoutComplete = 2
    /\ props.onRemoveComplete = 0

\* the reloadItems calls of a step's log
ReloadCalls(log) == {i \in DOMAIN log : log[i].op = "reloadItems"}

\* C28: an update pass calls reloadItems, once, exactly when forceItemReload is
\* true, or moved is non-empty, or removed is non-empty, or appended is non-empty
\* while prepended is empty; in every other case it does not call it.
C28_ReloadCondition ==
    diff.ran =>
        Cardinality(ReloadCalls(calls)) =
            IF \/ diff.forceItemReload
               \/ Len(diff.moved) > 0
               \/ Len(diff.removed) > 0
               \/ (Len(diff.appended) > 0 /\ Len(diff.prepended) = 0)
            THEN 1 ELSE 0

\* a pass that reloads for its appended children alone
C28_Witness ==
    /\ diff.ran
    /\ ~diff.forceItemReload
    /\ diff.moved = <<>>
    /\ diff.removed = <<>>
    /\ Len(diff.appended) > 0
    /\ diff.prepended = <<>>
    /\ ReloadCalls(calls) # {}

\* C25: with no item selector and every element either in the container or
\* detached, an update pass of a component with an engine calls reloadItems if and
\* only if the known list is non-empty and the current list differs from it; so
\* populating an empty container reloads nothing, while an insertion, removal or
\* reordering against a non-empty known list does.
C25_ReloadIffChangedNonEmpty ==
    (diff.ran /\ ~props.itemSelector /\ elsewhere = {}) =>
        (ReloadCalls(calls) # {} <=> (diff.known # <<>> /\ diff.new # diff.known))

\* the known children were reordered, and the pass reloaded
C25_Witness ==
    /\ diff.ran /\ ~props.itemSelector /\ elsewhere = {}
    /\ Len(diff.known) >= 2
    /\ diff.new # diff.known
    /\ Range(diff.new) = Range(diff.known)
    /\ ReloadCalls(calls) # {}

\* the nodes of a diff's current list that its attached known list does not hold
NewNodes(d) == Range(d.new) \ Range(d.old)

\* the length of the longest run of new nodes at the front of the current list
FrontRun(d) ==
    SetMax({k \in 0..Len(d.new) : \A i \in 1..k : d.new[i] \in NewNodes(d)})

\* C29: prepended is exactly the maximal contiguous run of new nodes at positions
\* 0..k-1 of the current list, in order: the classification stops at the first new
\* node whose position is not the running counter; every remaining new node is in
\* appended, in the order of the current list.
C29_PrependedIsFrontRun ==
    diff.ran =>
        /\ diff.prepended = SubSeq(diff.new, 1, FrontRun(diff))
        /\ diff.appended =
              SelectSeq(SubSeq(diff.new, FrontRun(diff) + 1, Len(diff.new)),
                        LAMBDA c : c \in NewNodes(diff))

\* new nodes both in front of and behind a known one
C29_Witness ==
    /\ diff.ran
    /\ Len(diff.prepended) >= 1
    /\ Len(diff.appended) >= 1
    /\ Len(diff.old) >= 1

\* the remove calls of a step's log
RemoveCalls(log) == SelectSeq(log, LAMBDA c : c.op = "remove")

KnownOutsideCurrent(known) ==
    {n \in Range(known) :
        \/ n \in elsewhere
        \/ (n \in Range(containerChildren) /\ props.itemSelector /\ n \notin matching)}

HandedOver(log, op) ==
    SelectSeq(log, LAMBDA c : c.op = op)

\* every node of the current list that the known list does not hold is in exactly
\* one of the pass's appended and prepended lists, each non-empty list is handed
\* to the engine once, and nothing else is
HandsOverNewNodes(d, log) ==
    /\ \A n \in Range(d.new) \ Range(d.known) :
          (n \in Range(d.appended)) # (n \in Range(d.prepended))
    /\ Range(d.appended) \cup Range(d.prepended) = Range(d.new) \ Range(d.known)
    /\ HandedOver(log, "appended") =
          IF d.appended = <<>> THEN <<>> ELSE <<Call("appended", d.appended)>>
    /\ HandedOver(log, "prepended") =
          IF d.prepended = <<>> THEN <<>> ELSE <<Call("prepended", d.prepended)>>

C24_ResizeListenersReleased ==
    mPhase = "unmounted" => \A n \in Nodes : erdListeners[n] = 0

\* C27: once unmount has destroyed the engine, no step calls layout,
\* reloadItems, appended, prepended or remove on it, whatever callbacks arrive.
C27_NoEngineCallAfterDestroy ==
    (mPhase = "unmounted" /\ engine.destroyed > 0) =>
        \A i \in DOMAIN calls : calls[i].op \notin EngineOperations

\* the release steps whose library call threw in the most recent step
Thrown == {calls[i].arg[1] : i \in {j \in DOMAIN calls : calls[j].op = "throw"}}

\* C23: when one release step of an unmount fails, the other release steps are
\* still performed: the resize listeners of the known children are released, the
\* callbacks of the current props are unsubscribed, the image-load observation is
\* cancelled and the engine is destroyed, each unless it is the step that failed.
C23_ReleasesSurviveFailure ==
    (mPhase = "unmounted" /\ Thrown # {}) =>
        /\ masonry => engine.destroyed = 1
        /\ "derefImagesLoaded" \notin Thrown =>
              (imagesLoadedCancelRef = 0 /\ observations = {})
        /\ ("offLayoutComplete" \notin Thrown /\ props.onLayoutComplete # 0) =>
              <<"layoutComplete", props.onLayoutComplete>> \notin engine.handlers
        /\ ("offRemoveComplete" \notin Thrown /\ props.onRemoveComplete # 0) =>
              <<"removeComplete", props.onRemoveComplete>> \notin engine.handlers
        /\ "destroyErd" \notin Thrown =>
              \A n \in Range(latestKnownDomChildren) : erdListeners[n] = 0

\* C33: moved is computed only when removed is empty, and is then exactly the
\* attached known nodes whose index in the current list differs from their index
\* in the attached known list, in that list's order; when removed is non-empty,
\* moved is empty.
C33_MovedOnlyWithoutRemoved ==
    diff.ran =>
        diff.moved =
            IF diff.removed = <<>>
            THEN SelectSeq(diff.old,
                           LAMBDA c : IndexOf(diff.new, c) # IndexOf(diff.old, c))
            ELSE <<>>

\* a pass with a node removed whose other known node changed index, and moved
\* stayed empty
C33_Witness ==
    /\ diff.ran
    /\ diff.removed # <<>>
    /\ \E c \in Range(diff.old) \cap Range(diff.new) :
          IndexOf(diff.new, c) # IndexOf(diff.old, c)
    /\ diff.moved = <<>>

\* C34: the removed, appended, prepended and moved lists of a diff are pairwise
\* disjoint: removed and moved hold only known nodes and are never both
\* non-empty, appended and prepended hold only nodes that were not known, and no
\* node is in both appended and prepended.
C34_ListsDisjoint ==
    diff.ran =>
        /\ Range(diff.removed) \cup Range(diff.moved) \subseteq Range(diff.known)
        /\ diff.removed = <<>> \/ diff.moved = <<>>
        /\ (Range(diff.appended) \cup Range(diff.prepended)) \cap Range(diff.known) = {}
        /\ Range(diff.appended) \cap Range(diff.prepended) = {}
        /\ Range(diff.removed) \cap Range(diff.moved) = {}

\* a pass with prepended, appended and moved nodes at once
C34_Witness ==
    /\ diff.ran
    /\ diff.prepended # <<>>
    /\ diff.appended # <<>>
    /\ diff.moved # <<>>

\* C37: remove is never called with a node that has no parent: a known node that
\* vanished from the DOM is left out of removed and the pass reloads the items
\* instead.
C37_RemoveOnlyAttached ==
    diff.ran =>
        /\ \A i \in DOMAIN calls : calls[i].op = "remove" =>
              \A n \in Range(calls[i].arg) : HasParent(n)
        /\ \A n \in Range(diff.known) : ~HasParent(n) =>
              /\ n \notin Range(diff.removed)
              /\ diff.forceItemReload
              /\ ReloadCalls(calls) # {}

\* one known node vanished and another was put under another parent: remove is
\* called with the second only
C37_Witness ==
    /\ diff.ran
    /\ \E n \in Range(diff.known) : ~HasParent(n)
    /\ RemoveCalls(calls) # <<>>

\* C38: the mount that builds the engine sets the known list to the container's
\* current children, and an update pass that follows it with the child list
\* unchanged calls layout and no other engine method.
C38_FirstPassOnlyLayout ==
    [][/\ (mPhase = "constructed" /\ masonry') =>
            latestKnownDomChildren' = getCurrentDomChildren(props)
       /\ ((\E i \in DOMAIN calls : calls[i].op = "new") /\ diff'.ran) =>
            EngineOps' = <<Call("layout", <<>>)>>]_vars

\* the pass that followed the mount over a non-empty container
C38_Witness ==
    /\ diff.ran
    /\ Len(diff.known) >= 2
    /\ diff.new = diff.known
    /\ EngineOps = <<Call("layout", <<>>)>>

ObservationIds(obs) == {o.id : o \in obs}

C35_OneHandlerOneTimer ==
    /\ Cardinality({o \in observations : o.subscribed}) <= 1
    /\ Cardinality({o \in observations : o.timers # <<>>}) <= 1
    /\ \A o \in observations : Len(o.timers) <= 1

\* a second observation is subscribed and has a timeout pending, after a first one
\* had one
C35_Witness ==
    /\ obsCount >= 2
    /\ \E o \in observations : o.id = obsCount /\ o.subscribed /\ Len(o.timers) = 1

\* C32: with resizable children enabled, after the mount and after every update
\* pass of a component with an engine, the resize detector holds exactly one
\* listener for each node of the known list.
C32_KnownRegisteredOnce ==
    (/\ mPhase = "mounted" /\ masonry /\ props.enableResizableChildren
     /\ diff.ran \/ (\E i \in DOMAIN calls : calls[i].op = "new")) =>
        \A n \in Range(latestKnownDomChildren) : erdListeners[n] = 1

==============================================================================
